---- MODULE Spec2Model ----
(***************************************************************************)
(* Model of the EdgeFrontier sensor-data simulator (the variant with the   *)
(* remote configuration poller, src/unnamed/part_001).  One TLA+ action    *)
(* per step of each thread: main, handle_machine (poller),                 *)
(* checkInput_main (key listener), the websocketpp event loop (c->run()),  *)
(* update_json_loop, print_json, Ai_handle and the detached                *)
(* send_json_loop / send_json_loop_secure.                                 *)
(***************************************************************************)
EXTENDS Integers, Sequences, FiniteSets, TLC

(***************************************************************************)
(* Bounds of the model                                                     *)
(***************************************************************************)
\* random draws (event index and channel values) come from samples 0..MaxDraw
MaxDraw == 0

\* the longest line and the longest file given to loadEnvFile
MaxLineLen == 3
MaxLines   == 2

\* the number of log() calls followed when LogManager is taken on its own
MaxLog == 2

(***************************************************************************)
(* Strings that the code upper-cases are sequences of characters           *)
(***************************************************************************)
LowerChars == <<"a","b","c","d","e","f","g","h","i","j","k","l","m",
                "n","o","p","q","r","s","t","u","v","w","x","y","z">>
UpperChars == <<"A","B","C","D","E","F","G","H","I","J","K","L","M",
                "N","O","P","Q","R","S","T","U","V","W","X","Y","Z">>

\* the upper-case letter of every lower-case letter
UpperOf ==
    [c \in {LowerChars[i] : i \in 1..Len(LowerChars)} |->
        UpperChars[CHOOSE i \in 1..Len(LowerChars) : LowerChars[i] = c]]

\* ::toupper on one character
toupper(c) == IF c \in DOMAIN UpperOf THEN UpperOf[c] ELSE c

\* std::transform(s.begin(), s.end(), s.begin(), ::toupper)
transform_toupper(s) == [i \in 1..Len(s) |-> toupper(s[i])]

STR_PREDICTION == <<"P","R","E","D","I","C","T","I","O","N">>
STR_SAFE       == <<"S","A","F","E">>
STR_SLOW       == <<"S","L","O","W">>
STR_MEDIUM     == <<"M","E","D","I","U","M">>
STR_FAST       == <<"F","A","S","T">>
STR_UNKNOWN    == <<"U","N","K","N","O","W","N">>

(***************************************************************************)
(* Enumerations and initial globals                                        *)
(***************************************************************************)
SAFE_MODE       == "SAFE_MODE"
PREDICTION_MODE == "PREDICTION_MODE"
Modes           == {SAFE_MODE, PREDICTION_MODE}

SLOW   == "SLOW"
MEDIUM == "MEDIUM"
FAST   == "FAST"
Speeds == {SLOW, MEDIUM, FAST}

Event    == <<"Cold", "Warm", "Hot", "Dry", "Wet", "Normal", "Unknown">>
Channels == <<"CO2", "VOC", "RA", "TEMP", "HUMID", "PRESSURE">>

\* the identifier the registration step left in HardwareID (upper-cased)
RegisteredID == <<"E","F","1">>
\* the identifier sensor_data was statically constructed with
PlaceholderID == <<"U","N","K","N","O","W","n">>
PlaceholderStamp == "2023-10-05 12:00:00"
\* what std::put_time yields for the current time: not the placeholder
NowStamp == "now"

(***************************************************************************)
(* Random samples: sample k of the generator gives an event index and six  *)
(* channel values in [0,100)                                               *)
(***************************************************************************)
Draws == 0..MaxDraw

\* event_dist(gen): an index into Event (0-based in the code)
event_dist(k) == ((3 * k + 1) % Len(Event)) + 1

\* a generator that can return the upper end of the interval
dis_closed(k, c) == 100

\* dis(gen) for channel number c of sample k
dis(k, c) == (37 * k + 11 * c) % 100

DataOf(k) == [n \in {Channels[c] : c \in 1..Len(Channels)} |->
                 dis(k, CHOOSE c \in 1..Len(Channels) : Channels[c] = n)]

ZeroPrediction == [e \in {Event[i] : i \in 1..Len(Event)} |-> 0]

\* the string stored in the "Mode" field by update_sensor_data/update_info
ModeString(m) == IF m = PREDICTION_MODE THEN "PREDICTION" ELSE "SAFE"

\* the string the static initialisers store (note the spelling in the source)
InitModeString(m) == IF m = PREDICTION_MODE THEN "PREDCITION" ELSE "SAFE"

\* nlohmann::json sensor_data = {...}
InitSensorData(k) ==
    [ TimeStamp  |-> PlaceholderStamp,
      HardwareID |-> PlaceholderID,
      Event      |-> "Cold",
      Mode       |-> InitModeString(SAFE_MODE),
      Data       |-> DataOf(k),
      Prediction |-> ZeroPrediction ]

\* json::erase(key): the document without that key
erase(doc, key) == [k \in (DOMAIN doc) \ {key} |-> doc[k]]

\* the order in which nlohmann::json (a std::map) serialises the keys
KeyOrder == <<"Data", "Event", "HardwareID", "Mode", "Prediction", "TimeStamp">>

\* json::dump(): the key/value pairs of the document, in key order
dump(doc) ==
    LET present == SelectSeq(KeyOrder, LAMBDA k : k \in DOMAIN doc)
    IN  [i \in 1..Len(present) |-> <<present[i], doc[present[i]]>>]

\* whether a serialised message carries the given key
HasKey(msg, key) == \E i \in 1..Len(msg) : msg[i][1] = key

NoDoc == [none |-> TRUE]
NoMsg == <<>>

(***************************************************************************)
(* The collector's answers to POST /hardware                               *)
(***************************************************************************)
\* a string that names no mode and no speed
OtherString == <<"x">>

ResponseIDs    == {RegisteredID, <<"e","f","1">>}
ResponseModes  == {STR_PREDICTION, <<"p","r","e","d","i","c","t","i","o","n">>,
                   STR_SAFE}
ResponseSpeeds == {STR_SLOW, <<"m","e","d","i","u","m">>, STR_FAST}

Responses ==
    {[kind |-> "empty"], [kind |-> "garbage"]}
    \cup {[kind |-> "json", body |-> [HardwareID |-> i, Mode |-> m, Speed |-> s]] :
              i \in ResponseIDs, m \in ResponseModes, s \in ResponseSpeeds}
    \cup {[kind |-> "json", body |-> [HardwareID |-> RegisteredID]]}
    \cup {[kind |-> "json", body |-> [HardwareID |-> RegisteredID,
                                       Mode |-> OtherString, Speed |-> OtherString]]}

\* the json null value: comparable with every string and equal to none
JsonNull == <<"null">>

\* json::operator[] on a parsed object: the member, or null when absent
Member(body, key) == IF key \in DOMAIN body THEN body[key] ELSE JsonNull

(***************************************************************************)
(* The WebSocket URI read from the environment                             *)
(***************************************************************************)
URIs == { <<"w","s",":">>, <<"w","s","s",":">>, <<"W","S","S",":">>,
          <<"h","t","t","p",":">> }

\* envMap["WS_URI"]: a URI, or the empty string when the file has no such key
NoURI == <<>>

\* getenv("REST_MAIN_SERVER"): a null pointer, an empty string or a URL
RestValues == {"null", "empty", "set"}

\* the answers of the collector to GET /register
RegisterIDs == {STR_UNKNOWN, <<"u","n","k","n","o","w","n">>, RegisteredID,
                <<"e","f","1">>}

RegisterResponses ==
    {[kind |-> "empty"], [kind |-> "garbage"]}
    \cup {[kind |-> "json", body |-> [HardwareID |-> i]] : i \in RegisterIDs}
    \cup {[kind |-> "json", body |-> [Mode |-> STR_SAFE]]}

\* a scheme test that ignores the case of the letters
is_secure_any_case(u) ==
    Len(u) >= 3 /\ transform_toupper(SubSeq(u, 1, 3)) = <<"W","S","S">>

\* is_secure(uri): uri.substr(0, 3) == "wss"
is_secure(u) == Len(u) >= 3 /\ SubSeq(u, 1, 3) = <<"w","s","s">>

\* get_connection(uri, ec) sets ec unless the scheme is the endpoint's own:
\* "ws" for the plain client of handle_no_secure, "wss" for the TLS client
get_connection_ok(u, r) ==
    \/ r = "handle_no_secure" /\ u = <<"w","s",":">>
    \/ r = "handle_secure" /\ u = <<"w","s","s",":">>

Keys  == {"t", "T", "m", "M", "x"}
NoKey == "none"

Threads == {"main", "machine", "input", "ws", "update", "print", "ai", "send"}
Loops   == {"machine", "input", "update", "print", "ai", "send"}

\* the history variables a behaviour records (one at a time)
Observers == {"none", "errors", "quit", "scenario", "cadence", "logger", "applied"}

\* the loops that sleep between two iterations, and "no sleep yet"
NoNap == <<"none", 0>>

\* enum LogLevel { INFO, WARNING, ERR, DEBUG } of LogManager, by value
INFO    == 0
WARNING == 1
ERR     == 2
DEBUG   == 3
LogLevels == {INFO, WARNING, ERR, DEBUG}

VARIABLES
    pc,             \* position of every thread
    uri,            \* WS_URI as found in the environment file
    rest,           \* REST_MAIN_SERVER as returned by getenv
    routine,        \* the handle_* routine main has chosen, or "none"
    is_run,         \* std::atomic<bool> is_run
    current_mode,   \* mode current_mode
    current_speed,  \* speed current_speed
    HardwareID,     \* std::string HardwareID
    sensor_data,    \* nlohmann::json sensor_data
    mtx,            \* std::mutex mtx: "free" or the thread holding it
    upd_draw,       \* update_sensor_data: the sample being written, or -1
    snapshot,       \* print_json: the document written to std::cout in this tick
    message,        \* send_json_loop: std::string message handed to send()
    send_err,       \* history: send_json_loop_secure wrote "Send error" to std::cerr
    send_threads,   \* number of send threads started so far
    conn,           \* state of the websocketpp connection
    tick,           \* history: the kind of response the poller got in its last tick
    machine_err,    \* history: the poller wrote an error to std::cerr in its last tick
    applied,        \* history: the Mode and Speed strings the poller applied in its last tick
    aborted,        \* "none", or the exception that ended the process (std::terminate)
    obs,            \* which history variable this behaviour records
    quit_open,      \* history: the quit key was pressed while the connection was open
    c8,             \* history: progress of the SAFE/SLOW -> PREDICTION/FAST scenario
    nap,            \* history: the loop that went to sleep last and for how long
    joined,         \* history: the threads main has joined, in the order of the joins
    reg_last,       \* history: how the last iteration of the registration loop ended
    logLevel_,      \* LogManager::logLevel_
    log_pending,    \* the poller has called setLogLevel() and not yet log()
    log_result,     \* history: what the poller's last log() call did with its entry
    file,           \* loadEnvFile: the lines of the environment file read so far
    line_no,        \* loadEnvFile: the number of lines read so far
    envMap,         \* loadEnvFile: std::unordered_map envMap, a function of the keys
    env_log,        \* loadEnvFile: the lines logged as malformed
    logFile_,       \* LogManager::logFile_: "closed", "open" or "failed"
    log_lines,      \* the entries written to the log file
    console,        \* the entries written to std::cout and std::cerr by log()
    last_call,      \* history: number, level and message of the last log() call
    last_set        \* history: the level of the last setLogLevel() call

\* Note: nlohmann::json info (lines 175-179) is written by update_info and read
\* nowhere in the program; the model keeps update_info's step and its locking and
\* leaves the value written out of the state.

fixed     == <<uri, rest, obs>>
control   == <<is_run, current_mode, current_speed>>
telemetry == <<sensor_data, mtx, upd_draw>>
outputs   == <<snapshot, message, send_err>>
poller    == <<tick, machine_err, applied>>
history   == <<quit_open, c8>>
logger    == <<logLevel_, log_pending, log_result>>
sink      == <<logFile_, log_lines, console, last_call, last_set>>
env       == <<file, line_no, envMap, env_log, sink>>

vars == <<pc, fixed, control, HardwareID, telemetry, outputs, send_threads, conn,
          poller, aborted, history, routine, nap, joined, reg_last, logger, env>>

\* the state of the program proper: everything but the logger and the parts
\* followed on their own
program == <<pc, fixed, control, HardwareID, telemetry, outputs, send_threads, conn,
             poller, aborted, history, routine, nap, joined, reg_last>>

InitGlobals ==
    /\ pc = [t \in Threads |-> IF t = "main" THEN "begin" ELSE "not_started"]
    /\ routine = "none"
    /\ nap = NoNap
    /\ is_run = TRUE
    /\ current_mode = SAFE_MODE
    /\ current_speed = SLOW
    /\ HardwareID = PlaceholderID
    /\ mtx = "free"
    /\ upd_draw = -1
    /\ snapshot = NoDoc
    /\ message = NoMsg
    /\ send_err = FALSE
    /\ send_threads = 0
    /\ conn = "none"
    /\ tick = "none"
    /\ machine_err = FALSE
    /\ applied = <<>>
    /\ aborted = "none"
    /\ quit_open = FALSE
    /\ c8 = "idle"
    /\ joined = <<>>
    /\ reg_last = "none"
    /\ logLevel_ = INFO
    /\ log_pending = FALSE
    /\ log_result = "none"
    /\ logFile_ = "closed"
    /\ log_lines = <<>>
    /\ console = <<>>
    /\ last_call = <<0, INFO, "">>
    /\ last_set = INFO

\* the whole program; what the environment file defines is given by uri and
\* rest, and loadEnvFile itself is followed line by line in SpecEnv below
InitProgram ==
    /\ InitGlobals
    /\ \E k \in Draws : sensor_data = InitSensorData(k)
    /\ uri \in URIs \cup {NoURI}
    /\ rest \in RestValues
    /\ file = <<>>
    /\ line_no = 0
    /\ envMap = <<>>
    /\ env_log = <<>>

Init == InitProgram /\ obs = "none"

\* the process is alive: std::terminate has not been called
Alive == aborted = "none"

Goto(t, where) == pc' = [pc EXCEPT ![t] = where]

\* the value a history variable takes: recorded by observer o only
Record(o, new, old) == IF obs = o THEN new ELSE old

\* LogManager::setLogLevel, lines 42-45
setLogLevel(level) == logLevel_' = Record("logger", level, logLevel_)

\* a log() that also drops the entries at the threshold
log_skips_at_threshold(level, current) == level <= current

\* LogManager::log, line 49: if (level < logLevel_) return
log_skips(level, current) == level < current

\* a loop top that ignores the flag
LoopTop_forever(run, body) == body

\* while (is_run) at the top of a loop
LoopTop(run, body) == IF run THEN body ELSE "done"

(***************************************************************************)
(* checkInput_main: the key listener.  is_run is written by this thread    *)
(* only, so the test of the flag and the body of one iteration are one     *)
(* step; an iteration in which kbhit_main() finds no key changes nothing.  *)
(***************************************************************************)
\* current_mode = (current_mode == SAFE_MODE) ? PREDICTION_MODE : SAFE_MODE
toggle_mode(m) == IF m = SAFE_MODE THEN PREDICTION_MODE ELSE SAFE_MODE

\* is_run after the key ch was read
key_is_run(ch, run) == IF ch \in {"t", "T"} THEN FALSE ELSE run

\* a listener in which every key toggles the mode
key_mode_any_key(ch, m) == toggle_mode(m)

\* current_mode after the key ch was read
key_mode(ch, m) == IF ch \in {"m", "M"} THEN toggle_mode(m) ELSE m

\* while (is_run) { if (kbhit_main()) { ch = getchar(); ... } sleep_for(100ms); }
checkInput_main_key ==
    /\ Alive
    /\ pc["input"] = "check"
    /\ LoopTop(is_run, "kbhit") = "kbhit"
    /\ \E ch \in Keys :
          /\ is_run' = key_is_run(ch, is_run)
          /\ current_mode' = key_mode(ch, current_mode)
    /\ quit_open' = Record("quit", quit_open \/ (is_run /\ ~is_run' /\ conn = "open"),
                           quit_open)
    /\ c8' = IF current_mode' # current_mode THEN "idle" ELSE c8
    /\ UNCHANGED <<pc, fixed, current_speed, HardwareID, telemetry, outputs,
                   send_threads, conn, poller, aborted>>
    /\ UNCHANGED <<routine, nap, joined, reg_last, logger, env>>

checkInput_main_exit ==
    /\ Alive
    /\ pc["input"] = "check"
    /\ LoopTop(is_run, "kbhit") = "done"
    /\ Goto("input", "done")
    /\ UNCHANGED <<fixed, control, HardwareID, telemetry, outputs, send_threads,
                   conn, poller, aborted, history>>
    /\ UNCHANGED <<routine, nap, joined, reg_last, logger, env>>

(***************************************************************************)
(* handle_machine: the remote configuration poller                         *)
(***************************************************************************)
\* pre_info["HardwareID"] == HardwareID
id_always_matches(body, hid) == TRUE

id_matches(body, hid) == Member(body, "HardwareID") = hid

\* json::get<std::string>() throws type_error on a value that is no string
get_string_throws(body, key) == Member(body, key) = JsonNull

\* a mode that is never applied
apply_mode_never(MODE, cur) == cur

\* a poller that leaves a PREDICTION mode alone once it is set
apply_mode_sticky(MODE, cur) ==
    IF cur = PREDICTION_MODE THEN cur
    ELSE IF MODE = STR_PREDICTION THEN PREDICTION_MODE ELSE SAFE_MODE

\* lines 389-403: the mode chosen by the upper-cased MODE string
apply_mode(MODE, cur) ==
    IF MODE = STR_PREDICTION
    THEN (IF cur # PREDICTION_MODE THEN PREDICTION_MODE ELSE cur)
    ELSE (IF cur # SAFE_MODE THEN SAFE_MODE ELSE cur)

\* a poller that takes no string but "FAST" for FAST
apply_speed_strict(SPEED, cur) ==
    IF SPEED = STR_SLOW THEN SLOW
    ELSE IF SPEED = STR_MEDIUM THEN MEDIUM
    ELSE IF SPEED = STR_FAST THEN FAST ELSE cur

\* lines 404-422: the speed chosen by the upper-cased SPEED string
apply_speed(SPEED, cur) ==
    IF SPEED = STR_SLOW THEN (IF cur # SLOW THEN SLOW ELSE cur)
    ELSE IF SPEED = STR_MEDIUM THEN (IF cur # MEDIUM THEN MEDIUM ELSE cur)
    ELSE (IF cur # FAST THEN FAST ELSE cur)

\* what the collector sent in this tick, as seen from outside the program
ResponseKind(res, hid) ==
    IF res.kind # "json" THEN res.kind
    ELSE IF "HardwareID" \in DOMAIN res.body /\ res.body["HardwareID"] = hid
         THEN "match" ELSE "mismatch"

\* history of the scenario of section 8: a matching {PREDICTION, FAST} answer
\* received on SAFE/SLOW arms it ("armed"); the next display tick that starts
\* makes it "started" and its rendering makes it "shown"; a later matching
\* answer with another mode marks it as overridden ("..._over"); the toggle
\* key and the exit of the display loop end it ("idle")
c8_after_response(res) ==
    IF ResponseKind(res, HardwareID) # "match"
       \/ ~({"Mode", "Speed"} \subseteq DOMAIN res.body)
    THEN c8
    ELSE IF /\ current_mode = SAFE_MODE /\ current_speed = SLOW
            /\ res.body["Mode"] = STR_PREDICTION /\ res.body["Speed"] = STR_FAST
    THEN "armed"
    ELSE IF transform_toupper(res.body["Mode"]) # STR_PREDICTION
    THEN (IF c8 = "armed" THEN "armed_over"
          ELSE IF c8 = "started" THEN "started_over" ELSE c8)
    ELSE c8

\* while (is_run) at line 374, after delay_server() of the previous iteration.
\* The step of a tick that applies a transition ends between setLogLevel(INFO)
\* and log(INFO, ...) of its last transition (e.g. lines 393 and 394): the log
\* call is the first thing this step does.  Lines 431-432 follow the loop.
handle_machine_check ==
    /\ Alive
    /\ pc["machine"] = "check"
    /\ Goto("machine", LoopTop(is_run, "post"))
    /\ tick' = "none"
    /\ machine_err' = FALSE
    /\ applied' = <<>>
    /\ c8' = (IF pc["print"] = "done" THEN "idle" ELSE c8)
    /\ UNCHANGED <<fixed, control, HardwareID, telemetry, outputs, send_threads,
                   conn, aborted, quit_open>>
    /\ UNCHANGED <<routine, nap, joined, reg_last, env>>
    /\ log_result' = (IF log_pending THEN (IF log_skips(INFO, logLevel_) THEN "skipped"
                                                                        ELSE "written")
                      ELSE "none")
    /\ log_pending' = FALSE
    /\ setLogLevel(IF is_run THEN logLevel_ ELSE INFO)

\* if (res != "") is false: nothing is done in this tick
machine_empty ==
    /\ machine_err' = Record("errors", FALSE, machine_err)
    /\ Goto("machine", "check")
    /\ UNCHANGED <<control, HardwareID, aborted, logLevel_, log_pending, applied>>

\* json::parse or get<std::string>() throws in the thread: std::terminate
machine_throw ==
    /\ aborted' = "parse_throw"
    /\ UNCHANGED <<pc, machine_err, control, HardwareID, logLevel_, log_pending,
                   applied>>

\* the else branch of line 423
machine_mismatch ==
    /\ machine_err' = Record("errors", TRUE, machine_err)
    /\ Goto("machine", "check")
    /\ setLogLevel(ERR)
    /\ UNCHANGED <<control, HardwareID, aborted, log_pending, applied>>

\* lines 384-422
machine_apply(body) ==
    LET MODE  == transform_toupper(body["Mode"])
        SPEED == transform_toupper(body["Speed"])
    IN  /\ HardwareID' = transform_toupper(HardwareID)
        /\ current_mode' = apply_mode(MODE, current_mode)
        /\ current_speed' = apply_speed(SPEED, current_speed)
        /\ machine_err' = Record("errors", FALSE, machine_err)
        /\ applied' = Record("applied", <<body["Mode"], body["Speed"]>>, applied)
        /\ Goto("machine", "check")
        /\ IF current_mode' # current_mode \/ current_speed' # current_speed
           THEN /\ setLogLevel(INFO)
                /\ log_pending' = Record("logger", TRUE, log_pending)
           ELSE UNCHANGED <<logLevel_, log_pending>>
        /\ UNCHANGED <<is_run, aborted>>

\* one tick: http.post_json(...), the handling of its response, delay_server()
handle_machine_post ==
    /\ Alive
    /\ pc["machine"] = "post"
    /\ \E res \in Responses :
          /\ tick' = Record("errors", ResponseKind(res, HardwareID), tick)
          /\ c8' = Record("scenario", c8_after_response(res), c8)
          /\ IF res.kind = "empty" THEN machine_empty
             ELSE IF res.kind = "garbage" THEN machine_throw
             ELSE IF id_matches(res.body, HardwareID)
                  THEN IF get_string_throws(res.body, "Mode")
                          \/ get_string_throws(res.body, "Speed")
                       THEN machine_throw
                       ELSE machine_apply(res.body)
                  ELSE machine_mismatch
    /\ UNCHANGED <<fixed, telemetry, outputs, send_threads, conn, quit_open>>
    /\ UNCHANGED <<routine, nap, joined, reg_last, env>>
    /\ UNCHANGED log_result

(***************************************************************************)
(* The sleep between two iterations of a loop, in microseconds             *)
(***************************************************************************)
\* delay(), lines 181-185
delay(sp) == IF sp = SLOW THEN 1000000 ELSE IF sp = MEDIUM THEN 200000 ELSE 100000

\* std::this_thread::sleep_for(std::chrono::seconds(1)) at line 271
update_json_loop_sleep(sp) == 1000000

\* the loop t goes to sleep for d microseconds
Sleep(t, d) == nap' = Record("cadence", <<t, d>>, nap)

(***************************************************************************)
(* update_json_loop, update_sensor_data, update_info                       *)
(***************************************************************************)
update_json_loop_check ==
    /\ Alive
    /\ pc["update"] = "check"
    /\ Goto("update", LoopTop(is_run, "lock_sd"))
    /\ UNCHANGED <<fixed, control, HardwareID, telemetry, outputs, send_threads,
                   conn, poller, aborted, history>>
    /\ UNCHANGED <<routine, nap, joined, reg_last, env>>
    /\ setLogLevel(IF is_run THEN logLevel_ ELSE INFO)
    /\ UNCHANGED <<log_pending, log_result>>

\* a regenerate that leaves the Mode field as it is
regenerate_head_keeps_mode(j, k, hid, m) ==
    [j EXCEPT !["TimeStamp"]  = NowStamp,
              !["HardwareID"] = hid,
              !["Event"]      = Event[event_dist(k)]]

\* lines 197-203: the fields written before the channel values
regenerate_head(j, k, hid, m) ==
    [j EXCEPT !["TimeStamp"]  = NowStamp,
              !["HardwareID"] = hid,
              !["Event"]      = Event[event_dist(k)],
              !["Mode"]       = ModeString(m)]

\* lines 204-209: the six channel values
regenerate_data(j, k) == [j EXCEPT !["Data"] = DataOf(k)]

\* update_sensor_data: lock_guard taken, lines 192-203
update_sensor_data_lock ==
    /\ Alive
    /\ pc["update"] = "lock_sd"
    /\ mtx = "free"
    /\ mtx' = "update"
    /\ \E k \in Draws :
          /\ upd_draw' = k
          /\ sensor_data' = regenerate_head(sensor_data, k, HardwareID, current_mode)
    /\ Goto("update", "in_sd")
    /\ UNCHANGED <<fixed, control, HardwareID, outputs, send_threads, conn, poller,
                   aborted, history>>
    /\ UNCHANGED <<routine, nap, joined, reg_last, logger, env>>

\* update_sensor_data with the logger calls of lines 212-213 made under the
\* lock_guard
update_sensor_data_finish_logged ==
    /\ Alive
    /\ pc["update"] = "in_sd"
    /\ sensor_data' = regenerate_data(sensor_data, upd_draw)
    /\ upd_draw' = -1
    /\ mtx' = "free"
    /\ Goto("update", "lock_info")
    /\ setLogLevel(DEBUG)
    /\ UNCHANGED <<fixed, control, HardwareID, outputs, send_threads, conn, poller,
                   aborted, history>>
    /\ UNCHANGED <<routine, nap, joined, reg_last, log_pending, log_result, env>>

\* update_sensor_data: lines 204-209 and the release of the lock_guard
update_sensor_data_finish ==
    /\ Alive
    /\ pc["update"] = "in_sd"
    /\ sensor_data' = regenerate_data(sensor_data, upd_draw)
    /\ upd_draw' = -1
    /\ mtx' = "free"
    /\ Goto("update", "lock_info")
    /\ UNCHANGED <<fixed, control, HardwareID, outputs, send_threads, conn, poller,
                   aborted, history>>
    /\ UNCHANGED <<routine, nap, joined, reg_last, logger, env>>

\* update_info(info): lock, three assignments to info, unlock; then sleep_for(1s)
update_info ==
    /\ Alive
    /\ pc["update"] = "lock_info"
    /\ mtx = "free"
    /\ Goto("update", "check")
    /\ UNCHANGED <<fixed, control, HardwareID, telemetry, outputs, send_threads,
                   conn, poller, aborted, history>>
    /\ Sleep("update", update_json_loop_sleep(current_speed))
    /\ UNCHANGED <<routine, joined, reg_last, logger, env>>

(***************************************************************************)
(* print_json: the display loop                                            *)
(***************************************************************************)
\* a display that never drops the predictions
render_all(doc, m) == doc

\* lines 240-246: what is dumped to std::cout
render(doc, m) == IF m = SAFE_MODE THEN erase(doc, "Prediction") ELSE doc

print_json_check ==
    /\ Alive
    /\ pc["print"] = "check"
    /\ Goto("print", LoopTop(is_run, "lock"))
    /\ c8' = (IF ~is_run THEN "idle"
              ELSE IF c8 = "armed" THEN "started"
              ELSE IF c8 = "armed_over" THEN "started_over"
              ELSE c8)
    /\ UNCHANGED <<fixed, control, HardwareID, telemetry, outputs, send_threads,
                   conn, poller, aborted, quit_open>>
    /\ UNCHANGED <<routine, nap, joined, reg_last, env>>
    /\ setLogLevel(IF is_run THEN logLevel_ ELSE INFO)
    /\ UNCHANGED <<log_pending, log_result>>

\* if (current_mode = SAFE_MODE): an assignment in place of the comparison
print_json_lock_assign ==
    /\ Alive
    /\ pc["print"] = "lock"
    /\ mtx = "free"
    /\ mtx' = "print"
    /\ current_mode' = SAFE_MODE
    /\ snapshot' = sensor_data
    /\ c8' = (IF c8 = "started" THEN "shown"
              ELSE IF c8 = "started_over" THEN "idle" ELSE c8)
    /\ Goto("print", "rendered")
    /\ UNCHANGED <<fixed, is_run, current_speed, HardwareID, sensor_data, upd_draw,
                   message, send_err, send_threads, conn, poller, aborted, quit_open>>
    /\ UNCHANGED <<routine, nap, joined, reg_last, logger, env>>

\* a display tick that erases the predictions in the shared document
print_json_lock_inplace ==
    /\ Alive
    /\ pc["print"] = "lock"
    /\ mtx = "free"
    /\ mtx' = "print"
    /\ sensor_data' = render(sensor_data, current_mode)
    /\ snapshot' = sensor_data'
    /\ c8' = (IF c8 = "started" THEN "shown"
              ELSE IF c8 = "started_over" THEN "idle" ELSE c8)
    /\ Goto("print", "rendered")
    /\ UNCHANGED <<fixed, control, HardwareID, upd_draw, message,
                   send_err, send_threads, conn, poller, aborted, quit_open>>
    /\ UNCHANGED <<routine, nap, joined, reg_last, logger, env>>

\* a display tick that reads the document without taking the mutex
print_json_lock_free ==
    /\ Alive
    /\ pc["print"] = "lock"
    /\ snapshot' = render(sensor_data, current_mode)
    /\ c8' = (IF c8 = "started" THEN "shown"
              ELSE IF c8 = "started_over" THEN "idle" ELSE c8)
    /\ Goto("print", "rendered")
    /\ UNCHANGED <<fixed, control, HardwareID, telemetry, message,
                   send_err, send_threads, conn, poller, aborted, quit_open>>
    /\ UNCHANGED <<routine, nap, joined, reg_last, logger, env>>

\* lock_guard taken, current_mode read, the document (or its clone) dumped
print_json_lock ==
    /\ Alive
    /\ pc["print"] = "lock"
    /\ mtx = "free"
    /\ mtx' = "print"
    /\ snapshot' = render(sensor_data, current_mode)
    /\ c8' = (IF c8 = "started" THEN "shown"
              ELSE IF c8 = "started_over" THEN "idle" ELSE c8)
    /\ Goto("print", "rendered")
    /\ UNCHANGED <<fixed, control, HardwareID, sensor_data, upd_draw, message,
                   send_err, send_threads, conn, poller, aborted, quit_open>>
    /\ UNCHANGED <<routine, nap, joined, reg_last, logger, env>>

\* end of the block: the clone and the lock_guard are destroyed; then delay()
print_json_unlock ==
    /\ Alive
    /\ pc["print"] = "rendered"
    /\ mtx' = "free"
    /\ snapshot' = NoDoc
    /\ c8' = (IF c8 = "shown" THEN "idle" ELSE c8)
    /\ Goto("print", "check")
    /\ UNCHANGED <<fixed, control, HardwareID, sensor_data, upd_draw, message,
                   send_err, send_threads, conn, poller, aborted, quit_open>>
    /\ Sleep("print", delay(current_speed))
    /\ UNCHANGED <<routine, joined, reg_last, logger, env>>

(***************************************************************************)
(* send_json_loop / send_json_loop_secure                                  *)
(***************************************************************************)
send_json_loop_check ==
    /\ Alive
    /\ pc["send"] = "check"
    /\ Goto("send", LoopTop(is_run, "lock"))
    /\ send_err' = FALSE
    /\ UNCHANGED <<fixed, control, HardwareID, telemetry, snapshot, message,
                   send_threads, conn, poller, aborted, history>>
    /\ UNCHANGED <<routine, nap, joined, reg_last, env>>
    /\ setLogLevel(IF is_run THEN logLevel_ ELSE INFO)
    /\ UNCHANGED <<log_pending, log_result>>

\* a send loop that dumps the document under the lock and releases it before
\* it calls send()
send_json_loop_lock_released ==
    /\ Alive
    /\ pc["send"] = "lock"
    /\ mtx = "free"
    /\ message' = dump(sensor_data)
    /\ Goto("send", "sending")
    /\ UNCHANGED <<fixed, control, HardwareID, telemetry, snapshot,
                   send_err, send_threads, conn, poller, aborted, history>>
    /\ UNCHANGED <<routine, nap, joined, reg_last, logger, env>>

\* lock_guard taken, message = sensor_data.dump(), send() called with the lock held
send_json_loop_lock ==
    /\ Alive
    /\ pc["send"] = "lock"
    /\ mtx = "free"
    /\ mtx' = "send"
    /\ message' = dump(sensor_data)
    /\ Goto("send", "sending")
    /\ UNCHANGED <<fixed, control, HardwareID, sensor_data, upd_draw, snapshot,
                   send_err, send_threads, conn, poller, aborted, history>>
    /\ UNCHANGED <<routine, nap, joined, reg_last, logger, env>>

\* endpoint::send fails unless the connection is open
send_fails(c) == c # "open"

\* send_json_loop_secure: send(hdl, message, opcode, ec) returns, ec is examined,
\* the block ends; then delay()
send_return_secure ==
    /\ send_err' = Record("errors", send_fails(conn), send_err)
    /\ mtx' = "free"
    /\ message' = NoMsg
    /\ Goto("send", "check")
    /\ Sleep("send", delay(current_speed))
    /\ UNCHANGED aborted

\* send_json_loop: send(hdl, message, opcode) returns, or throws
\* websocketpp::exception out of the detached thread: std::terminate
send_return_no_secure ==
    IF send_fails(conn)
    THEN /\ aborted' = "send_throw"
         /\ UNCHANGED <<send_err, mtx, message, pc, nap>>
    ELSE /\ mtx' = "free"
         /\ message' = NoMsg
         /\ Goto("send", "check")
         /\ Sleep("send", delay(current_speed))
         /\ UNCHANGED <<send_err, aborted>>

send_json_loop_return ==
    /\ Alive
    /\ pc["send"] = "sending"
    /\ IF routine = "handle_secure" THEN send_return_secure ELSE send_return_no_secure
    /\ UNCHANGED <<fixed, control, HardwareID, sensor_data, upd_draw, snapshot,
                   send_threads, conn, poller, history>>
    /\ UNCHANGED <<routine, joined, reg_last, logger, env>>

(***************************************************************************)
(* Ai_handle: the inference loop.  predict() reads and writes no shared    *)
(* state and its result is discarded: one iteration changes nothing.       *)
(***************************************************************************)
\* an inference loop that stores a result into the predictions of the document
Ai_handle_predict_stores ==
    /\ Alive
    /\ pc["ai"] = "check"
    /\ LoopTop(is_run, "predict") = "predict"
    /\ sensor_data' = [sensor_data EXCEPT !["Prediction"] =
                          [e \in DOMAIN ZeroPrediction |-> 1]]
    /\ Sleep("ai", delay(current_speed))
    /\ UNCHANGED <<pc, fixed, control, HardwareID, mtx, upd_draw, outputs,
                   send_threads, conn, poller, aborted, history, routine, joined,
                   reg_last, logger, env>>

\* while (is_run) { mlp2.predict(inputs, R_D); delay(); }
Ai_handle_predict ==
    /\ Alive
    /\ pc["ai"] = "check"
    /\ LoopTop(is_run, "predict") = "predict"
    /\ Sleep("ai", delay(current_speed))
    /\ UNCHANGED <<pc, fixed, control, HardwareID, telemetry, outputs, send_threads,
                   conn, poller, aborted, history, routine, joined, reg_last,
                   logger, env>>

Ai_handle_exit ==
    /\ Alive
    /\ pc["ai"] = "check"
    /\ LoopTop(is_run, "predict") = "done"
    /\ Goto("ai", "done")
    /\ UNCHANGED <<fixed, control, HardwareID, telemetry, outputs, send_threads,
                   conn, poller, aborted, history>>
    /\ UNCHANGED <<routine, nap, joined, reg_last, env>>
    /\ setLogLevel(INFO)
    /\ UNCHANGED <<log_pending, log_result>>

(***************************************************************************)
(* The websocketpp event loop (c->run()) and the open handler              *)
(***************************************************************************)
\* on_open / on_open_secure: std::thread send_thread(...); send_thread.detach()
on_open ==
    /\ pc' = [pc EXCEPT !["send"] = "check"]
    /\ send_threads' = send_threads + 1

\* the handshake succeeds: the connection opens and the open handler runs
ws_open ==
    /\ Alive
    /\ pc["ws"] = "run"
    /\ conn = "connecting"
    /\ conn' = "open"
    /\ on_open
    /\ UNCHANGED <<fixed, control, HardwareID, telemetry, outputs, poller, aborted,
                   history>>
    /\ UNCHANGED <<routine, nap, joined, reg_last, env>>
    /\ setLogLevel(DEBUG)
    /\ UNCHANGED <<log_pending, log_result>>

\* the connect or the handshake fails: run() has no more work and returns
ws_fail ==
    /\ Alive
    /\ pc["ws"] = "run"
    /\ conn = "connecting"
    /\ conn' = "failed"
    /\ Goto("ws", "done")
    /\ UNCHANGED <<fixed, control, HardwareID, telemetry, outputs, send_threads,
                   poller, aborted, history>>
    /\ UNCHANGED <<routine, nap, joined, reg_last, logger, env>>

\* the peer closes the open connection (or it drops), or the close requested
\* by main completes: run() returns
ws_closed ==
    /\ Alive
    /\ pc["ws"] = "run"
    /\ conn \in {"open", "closing"}
    /\ conn' = "closed"
    /\ Goto("ws", "done")
    /\ UNCHANGED <<fixed, control, HardwareID, telemetry, outputs, send_threads,
                   poller, aborted, history>>
    /\ UNCHANGED <<routine, nap, joined, reg_last, logger, env>>

(***************************************************************************)
(* main, handle_no_secure / handle_secure                                  *)
(***************************************************************************)
ByMain == UNCHANGED <<fixed, control, HardwareID, telemetry, outputs, poller, history>>

\* a step of main that starts thread t
MainStart(from, to, t, at) ==
    /\ Alive
    /\ pc["main"] = from
    /\ pc' = [pc EXCEPT !["main"] = to, ![t] = at]
    /\ ByMain

\* a join that does not wait for the thread
MainJoin_nowait(from, to, t) ==
    /\ Alive
    /\ pc["main"] = from
    /\ Goto("main", to)
    /\ joined' = Append(joined, t)
    /\ ByMain

\* a step of main that joins thread t
MainJoin(from, to, t) ==
    /\ Alive
    /\ pc["main"] = from
    /\ pc[t] = "done"
    /\ Goto("main", to)
    /\ joined' = Append(joined, t)
    /\ ByMain

\* what main leaves alone before it starts the first thread
InStartup ==
    UNCHANGED <<fixed, control, telemetry, outputs, send_threads, conn, poller,
                history, routine, nap, joined, env, log_pending, log_result>>

\* line 849: std::transform(HardwareID..., ::toupper) on the static initial value
main_begin ==
    /\ Alive
    /\ pc["main"] = "begin"
    /\ HardwareID' = transform_toupper(HardwareID)
    /\ Goto("main", "register")
    /\ UNCHANGED <<aborted, reg_last, logLevel_>>
    /\ InStartup

\* a registration loop that never sees the placeholder
is_placeholder_never(h) == FALSE

\* HardwareID == "UNKNOWN"
is_placeholder(h) == h = STR_UNKNOWN

\* while (HardwareID == "UNKNOWN") at line 851
main_register_check ==
    /\ Alive
    /\ pc["main"] = "register"
    /\ Goto("main", IF is_placeholder(HardwareID) THEN "load_env" ELSE "check_ws")
    /\ UNCHANGED <<HardwareID, aborted, reg_last, logLevel_>>
    /\ InStartup

\* rest_main_server_cstr = getenv(...) with a null pointer: undefined behaviour,
\* the process is killed or goes on with an empty string
null_string_outcomes == {"killed", "empty"}

\* lines 856-860
register_exit ==
    /\ Goto("main", "exit_1")
    /\ setLogLevel(ERR)
    /\ UNCHANGED <<HardwareID, aborted, reg_last>>

\* lines 868-888: the handling of the response of GET /register; only the
\* branch of the empty response has the sleep_for(microseconds(200000)) of line 872
register_response(res) ==
    IF res.kind = "empty"
    THEN /\ Goto("main", "register")
         /\ reg_last' = "slept"
         /\ setLogLevel(ERR)
         /\ UNCHANGED <<HardwareID, aborted>>
    ELSE IF res.kind = "garbage"
    THEN /\ aborted' = "register_throw"
         /\ setLogLevel(DEBUG)
         /\ UNCHANGED <<pc, HardwareID, reg_last>>
    ELSE IF Member(res.body, "HardwareID") # STR_UNKNOWN
    THEN IF get_string_throws(res.body, "HardwareID")
         THEN /\ aborted' = "register_throw"
              /\ setLogLevel(DEBUG)
              /\ UNCHANGED <<pc, HardwareID, reg_last>>
         ELSE /\ HardwareID' = transform_toupper(res.body["HardwareID"])
              /\ Goto("main", "register")
              /\ reg_last' = "no_sleep"
              /\ setLogLevel(INFO)
              /\ UNCHANGED aborted
    ELSE /\ Goto("main", "register")
         /\ reg_last' = "no_sleep"
         /\ setLogLevel(DEBUG)
         /\ UNCHANGED <<HardwareID, aborted>>

\* one iteration of the registration loop, lines 852-889
main_register ==
    /\ Alive
    /\ pc["main"] = "load_env"
    /\ IF rest = "null"
       THEN \E o \in null_string_outcomes :
               IF o = "killed"
               THEN /\ aborted' = "null_string"
                    /\ UNCHANGED <<pc, HardwareID, reg_last, logLevel_>>
               ELSE register_exit
       ELSE IF rest = "empty"
       THEN register_exit
       ELSE \E res \in RegisterResponses : register_response(res)
    /\ InStartup

\* lines 905-911: std::string ws_uri_cstr = envMap["WS_URI"]; if empty return 1
main_check_ws ==
    /\ Alive
    /\ pc["main"] = "check_ws"
    /\ Goto("main", IF uri = NoURI THEN "exit_1" ELSE "start_machine")
    /\ setLogLevel(IF uri = NoURI THEN ERR ELSE DEBUG)
    /\ UNCHANGED <<HardwareID, aborted, reg_last>>
    /\ InStartup

\* std::thread machine_thread(handle_machine)
main_start_machine ==
    /\ MainStart("start_machine", "start_input", "machine", "check")
    /\ UNCHANGED <<send_threads, conn, aborted>>
    /\ UNCHANGED <<routine, nap, joined, reg_last, env>>
    /\ setLogLevel(DEBUG)
    /\ UNCHANGED <<log_pending, log_result>>

\* std::thread input_thread(checkInput_main)
main_start_input ==
    /\ MainStart("start_input", "select", "input", "check")
    /\ UNCHANGED <<send_threads, conn, aborted>>
    /\ UNCHANGED <<routine, nap, joined, reg_last, env>>
    /\ setLogLevel(DEBUG)
    /\ UNCHANGED <<log_pending, log_result>>

\* a handle_* routine that starts its loops without connecting
handle_get_connection_no_connect ==
    /\ Alive
    /\ pc["main"] = "select"
    /\ routine' = (IF is_secure(uri) THEN "handle_secure" ELSE "handle_no_secure")
    /\ Goto("main", IF get_connection_ok(uri, routine') THEN "start_update"
                                                          ELSE "join_input")
    /\ ByMain
    /\ UNCHANGED <<send_threads, conn, aborted, nap, joined, reg_last, logger, env>>

\* is_secure(uri) ? handle_secure(...) : handle_no_secure(...), up to
\* get_connection(uri_clean, ec); if (ec) return
handle_get_connection ==
    /\ Alive
    /\ pc["main"] = "select"
    /\ routine' = (IF is_secure(uri) THEN "handle_secure" ELSE "handle_no_secure")
    /\ Goto("main", IF get_connection_ok(uri, routine') THEN "connect" ELSE "join_input")
    /\ ByMain
    /\ UNCHANGED <<send_threads, conn, aborted, nap, joined, reg_last, env>>
    /\ setLogLevel(IF get_connection_ok(uri, routine') THEN DEBUG ELSE ERR)
    /\ UNCHANGED <<log_pending, log_result>>

\* a handle_* routine that starts the send loop itself, next to the event loop
handle_connect_and_send ==
    /\ Alive
    /\ pc["main"] = "connect"
    /\ pc' = [pc EXCEPT !["main"] = "start_update", !["ws"] = "run", !["send"] = "check"]
    /\ send_threads' = send_threads + 1
    /\ conn' = "connecting"
    /\ ByMain
    /\ UNCHANGED aborted
    /\ UNCHANGED <<routine, nap, joined, reg_last, logger, env>>

\* c->connect(con) and std::thread websocket_thread([c]() { c->run(); })
handle_connect ==
    /\ MainStart("connect", "start_update", "ws", "run")
    /\ conn' = "connecting"
    /\ UNCHANGED <<send_threads, aborted>>
    /\ UNCHANGED <<routine, nap, joined, reg_last, env>>
    /\ setLogLevel(DEBUG)
    /\ UNCHANGED <<log_pending, log_result>>

\* std::thread update_thread(update_json_loop)
handle_start_update ==
    /\ MainStart("start_update", "start_print", "update", "check")
    /\ UNCHANGED <<send_threads, conn, aborted>>
    /\ UNCHANGED <<routine, nap, joined, reg_last, env>>
    /\ setLogLevel(DEBUG)
    /\ UNCHANGED <<log_pending, log_result>>

\* std::thread print_thread(print_json)
handle_start_print ==
    /\ MainStart("start_print", "start_ai", "print", "check")
    /\ UNCHANGED <<send_threads, conn, aborted>>
    /\ UNCHANGED <<routine, nap, joined, reg_last, env>>
    /\ setLogLevel(DEBUG)
    /\ UNCHANGED <<log_pending, log_result>>

\* std::thread Ai_thread(Ai_handle)
handle_start_ai ==
    /\ MainStart("start_ai", "join_update", "ai", "check")
    /\ UNCHANGED <<send_threads, conn, aborted>>
    /\ UNCHANGED <<routine, nap, joined, reg_last, env>>
    /\ setLogLevel(DEBUG)
    /\ UNCHANGED <<log_pending, log_result>>

\* update_thread.join()
handle_join_update ==
    /\ MainJoin("join_update", "join_print", "update")
    /\ UNCHANGED <<send_threads, conn, aborted>>
    /\ UNCHANGED <<routine, nap, reg_last, env>>
    /\ setLogLevel(INFO)
    /\ UNCHANGED <<log_pending, log_result>>

handle_join_print ==
    /\ MainJoin("join_print", "join_ai", "print")
    /\ UNCHANGED <<send_threads, conn, aborted>>
    /\ UNCHANGED <<routine, nap, reg_last, env>>
    /\ setLogLevel(INFO)
    /\ UNCHANGED <<log_pending, log_result>>

handle_join_ai ==
    /\ MainJoin("join_ai", "check_close", "ai")
    /\ UNCHANGED <<send_threads, conn, aborted>>
    /\ UNCHANGED <<routine, nap, reg_last, env>>
    /\ setLogLevel(INFO)
    /\ UNCHANGED <<log_pending, log_result>>

\* a handle_* routine that joins the event loop without the close call
handle_close_skipped ==
    /\ Alive
    /\ pc["main"] = "check_close"
    /\ Goto("main", "join_ws")
    /\ ByMain
    /\ UNCHANGED <<send_threads, conn, aborted>>
    /\ UNCHANGED <<routine, nap, joined, reg_last, logger, env>>

\* endpoint::close throws unless the connection is open
close_throws(c) == c # "open"

\* if (!is_run) { c->close(con->get_handle(), normal, ...) }: an exception
\* unwinds past the joinable websocket_thread, whose destructor calls std::terminate
handle_close ==
    /\ Alive
    /\ pc["main"] = "check_close"
    /\ IF ~is_run
       THEN IF close_throws(conn)
            THEN /\ aborted' = "close_throw"
                 /\ UNCHANGED <<pc, conn>>
            ELSE /\ conn' = "closing"
                 /\ Goto("main", "join_ws")
                 /\ UNCHANGED aborted
       ELSE /\ Goto("main", "join_ws")
            /\ UNCHANGED <<conn, aborted>>
    /\ ByMain
    /\ UNCHANGED send_threads
    /\ UNCHANGED <<routine, nap, joined, reg_last, env>>
    /\ setLogLevel(IF conn' = "closing" THEN INFO ELSE logLevel_)
    /\ UNCHANGED <<log_pending, log_result>>

handle_join_ws ==
    /\ MainJoin("join_ws", "join_input", "ws")
    /\ UNCHANGED <<send_threads, conn, aborted>>
    /\ UNCHANGED <<routine, nap, reg_last, env>>
    /\ setLogLevel(INFO)
    /\ UNCHANGED <<log_pending, log_result>>

\* a main that joins the poller where the source joins the key listener
main_join_input_swapped ==
    /\ MainJoin("join_input", "join_machine", "machine")
    /\ UNCHANGED <<send_threads, conn, aborted>>
    /\ UNCHANGED <<routine, nap, reg_last, logger, env>>

\* input_thread.join()
main_join_input ==
    /\ MainJoin("join_input", "join_machine", "input")
    /\ UNCHANGED <<send_threads, conn, aborted>>
    /\ UNCHANGED <<routine, nap, reg_last, env>>
    /\ setLogLevel(INFO)
    /\ UNCHANGED <<log_pending, log_result>>

\* machine_thread.join(); return 0
main_join_machine ==
    /\ MainJoin("join_machine", "returned", "machine")
    /\ UNCHANGED <<send_threads, conn, aborted>>
    /\ UNCHANGED <<routine, nap, reg_last, env>>
    /\ setLogLevel(INFO)
    /\ UNCHANGED <<log_pending, log_result>>

(***************************************************************************)
(* The specifications                                                      *)
(***************************************************************************)
Next ==
    \/ checkInput_main_key \/ checkInput_main_exit
    \/ handle_machine_check \/ handle_machine_post
    \/ update_json_loop_check \/ update_sensor_data_lock
    \/ update_sensor_data_finish \/ update_info
    \/ print_json_check \/ print_json_lock \/ print_json_unlock
    \/ send_json_loop_check \/ send_json_loop_lock \/ send_json_loop_return
    \/ Ai_handle_predict \/ Ai_handle_exit
    \/ ws_open \/ ws_fail \/ ws_closed
    \/ main_begin \/ main_register_check \/ main_register \/ main_check_ws
    \/ main_start_machine \/ main_start_input
    \/ handle_get_connection \/ handle_connect \/ handle_start_update
    \/ handle_start_print \/ handle_start_ai \/ handle_join_update
    \/ handle_join_print \/ handle_join_ai \/ handle_close \/ handle_join_ws
    \/ main_join_input \/ main_join_machine

Spec == Init /\ [][Next]_vars

\* the same program, recording what the poller received and what was written
\* to std::cerr
InitErrors == InitProgram /\ obs = "errors"

SpecErrors == InitErrors /\ [][Next]_vars

\* the same program, recording whether the quit key came after the connect
InitQuit == InitProgram /\ obs = "quit"

SpecQuit == InitQuit /\ [][Next]_vars

\* the same program, recording the scenario of section 8
InitScenario == InitProgram /\ obs = "scenario"

SpecScenario == InitScenario /\ [][Next]_vars

\* the same program, recording the sleep every loop goes into
InitCadence == InitProgram /\ obs = "cadence"

SpecCadence == InitCadence /\ [][Next]_vars

\* the same program with its scheduling: a thread inside a block guarded by mtx
\* goes on to the end of the block (the block has no wait but send(), which
\* returns or throws), and a thread blocked in lock() is woken when mtx is
\* released, every other holder sleeping after it has released mtx
LockFairness ==
    /\ WF_vars(update_sensor_data_finish)
    /\ WF_vars(print_json_unlock)
    /\ WF_vars(send_json_loop_return)
    /\ SF_vars(update_sensor_data_lock)
    /\ SF_vars(update_info)
    /\ SF_vars(print_json_lock)
    /\ SF_vars(send_json_loop_lock)

InitLocks == InitProgram /\ obs = "logger"

\* a tick of the poller with a collector that does not answer: post_json
\* returns "" and nothing is done before delay_server()
handle_machine_unanswered ==
    /\ Alive
    /\ pc["machine"] = "post"
    /\ tick' = Record("errors", "empty", tick)
    /\ machine_empty
    /\ UNCHANGED <<fixed, telemetry, outputs, send_threads, conn, history>>
    /\ UNCHANGED <<routine, nap, joined, reg_last, log_result, env>>

\* the program with a collector that answers the registration and then no poll
NextLocks ==
    \/ checkInput_main_key \/ checkInput_main_exit
    \/ handle_machine_check \/ handle_machine_unanswered
    \/ update_json_loop_check \/ update_sensor_data_lock
    \/ update_sensor_data_finish \/ update_info
    \/ print_json_check \/ print_json_lock \/ print_json_unlock
    \/ send_json_loop_check \/ send_json_loop_lock \/ send_json_loop_return
    \/ Ai_handle_predict \/ Ai_handle_exit
    \/ ws_open \/ ws_fail \/ ws_closed
    \/ main_begin \/ main_register_check \/ main_register \/ main_check_ws
    \/ main_start_machine \/ main_start_input
    \/ handle_get_connection \/ handle_connect \/ handle_start_update
    \/ handle_start_print \/ handle_start_ai \/ handle_join_update
    \/ handle_join_print \/ handle_join_ai \/ handle_close \/ handle_join_ws
    \/ main_join_input \/ main_join_machine

SpecLocks == InitLocks /\ [][NextLocks]_vars /\ LockFairness

(***************************************************************************)
(* The simpler variant (src/unnamed/part_002): a running flag, a key       *)
(* listener that only quits, update, display and send loops with a fixed   *)
(* cadence, no poller, no inference loop and no close call.  is_run stands *)
(* for its flag "running"; the content of the document decides no branch   *)
(* and is left as it is.                                                   *)
(***************************************************************************)
\* what the simpler variant does not have or does not branch on
unused == <<fixed, current_mode, current_speed, HardwareID, sensor_data, upd_draw,
            outputs, poller, history, routine, nap, reg_last, logger, env>>

\* the keys of the listener of the simpler variant: the quit key and any other
SimpleKeys == {"q", "x"}

InitSimple ==
    /\ InitGlobals
    /\ sensor_data = InitSensorData(0)
    /\ uri \in {<<"w","s",":">>, <<"w","s","s",":">>}
    /\ rest = "set"
    /\ file = <<>>
    /\ line_no = 0
    /\ envMap = <<>>
    /\ env_log = <<>>
    /\ obs = "none"

\* main, lines 696-728: the input thread is started before the handle_* routine
simple_main_start_input ==
    /\ pc["main"] = "begin"
    /\ pc' = [pc EXCEPT !["main"] = "connect", !["input"] = "check"]
    /\ UNCHANGED <<is_run, mtx, send_threads, conn, aborted, joined, unused>>

\* checkInput, lines 255-264: one iteration with a key in the buffer
checkInput_key ==
    /\ pc["input"] = "check"
    /\ is_run
    /\ \E ch \in SimpleKeys : is_run' = (ch # "q")
    /\ UNCHANGED <<pc, mtx, send_threads, conn, aborted, joined, unused>>

\* checkInput: while (running) is false
checkInput_exit ==
    /\ pc["input"] = "check"
    /\ ~is_run
    /\ Goto("input", "done")
    /\ UNCHANGED <<is_run, mtx, send_threads, conn, aborted, joined, unused>>

\* handle_no_secure, lines 483-507 (handle_secure 563-587): connect, then the
\* event loop thread, the update thread and the display thread are started
simple_handle_connect ==
    /\ pc["main"] = "connect"
    /\ conn' = "connecting"
    /\ pc' = [pc EXCEPT !["main"] = "join_update", !["ws"] = "run",
                        !["update"] = "check", !["print"] = "check"]
    /\ UNCHANGED <<is_run, mtx, send_threads, aborted, joined, unused>>

\* the handshake succeeds: on_open starts the send thread and detaches it
\* (lines 413-416, 426-429); run() stays in the event loop
simple_ws_open ==
    /\ pc["ws"] = "run"
    /\ conn = "connecting"
    /\ conn' = "open"
    /\ send_threads' = send_threads + 1
    /\ Goto("send", "check")
    /\ UNCHANGED <<is_run, mtx, aborted, joined, unused>>

\* the handshake fails: the event loop has no work left and run() returns
simple_ws_fail ==
    /\ pc["ws"] = "run"
    /\ conn = "connecting"
    /\ conn' = "failed"
    /\ Goto("ws", "done")
    /\ UNCHANGED <<is_run, mtx, send_threads, aborted, joined, unused>>

\* while (running) at the top of update_json_loop, print_json and send_json_loop
simple_loop_check(t, body) ==
    /\ pc[t] = "check"
    /\ Goto(t, LoopTop(is_run, body))
    /\ UNCHANGED <<is_run, mtx, send_threads, conn, aborted, joined, unused>>

\* lock_guard taken at the head of a guarded block
simple_lock(t, at, inside) ==
    /\ pc[t] = at
    /\ mtx = "free"
    /\ mtx' = t
    /\ Goto(t, inside)
    /\ UNCHANGED <<is_run, send_threads, conn, aborted, joined, unused>>

\* end of a guarded block, then sleep_for(200 ms)
simple_unlock(t, inside) ==
    /\ pc[t] = inside
    /\ mtx' = "free"
    /\ Goto(t, "check")
    /\ UNCHANGED <<is_run, send_threads, conn, aborted, joined, unused>>

\* update_json_loop, lines 350-355, and update_sensor_data, lines 301-330
simple_update_json_loop_check == simple_loop_check("update", "lock_sd")
simple_update_sensor_data_lock == simple_lock("update", "lock_sd", "in_sd")
simple_update_sensor_data_finish == simple_unlock("update", "in_sd")

\* print_json, lines 332-340
simple_print_json_check == simple_loop_check("print", "lock")
simple_print_json_lock == simple_lock("print", "lock", "rendered")
simple_print_json_unlock == simple_unlock("print", "rendered")

\* send_json_loop, lines 368-377 (send_json_loop_secure 390-403)
simple_send_json_loop_check == simple_loop_check("send", "check_lock")
simple_send_json_loop_lock == simple_lock("send", "check_lock", "sending")
simple_send_json_loop_return == simple_unlock("send", "sending")

\* thread.join() of lines 509-511 and 734: returns when the thread has ended
simple_join(t, at, next) ==
    /\ pc["main"] = at
    /\ pc[t] = "done"
    /\ Goto("main", next)
    /\ joined' = Append(joined, t)
    /\ UNCHANGED <<is_run, mtx, send_threads, conn, aborted, unused>>

simple_join_update == simple_join("update", "join_update", "join_print")
simple_join_print == simple_join("print", "join_print", "join_ws")
simple_join_ws == simple_join("ws", "join_ws", "join_input")

\* main, lines 734-775: input_thread.join(), return 0
simple_join_input == simple_join("input", "join_input", "returned")

NextSimple ==
    \/ simple_main_start_input \/ checkInput_key \/ checkInput_exit
    \/ simple_handle_connect \/ simple_ws_open \/ simple_ws_fail
    \/ simple_update_json_loop_check \/ simple_update_sensor_data_lock
    \/ simple_update_sensor_data_finish
    \/ simple_print_json_check \/ simple_print_json_lock \/ simple_print_json_unlock
    \/ simple_send_json_loop_check \/ simple_send_json_loop_lock
    \/ simple_send_json_loop_return
    \/ simple_join_update \/ simple_join_print \/ simple_join_ws
    \/ simple_join_input

\* fair scheduling: every thread that can take a step eventually takes it, and
\* a thread blocked in lock() is eventually served
FairSimple ==
    /\ WF_vars(simple_main_start_input) /\ WF_vars(checkInput_exit)
    /\ WF_vars(simple_handle_connect) /\ WF_vars(simple_ws_open \/ simple_ws_fail)
    /\ WF_vars(simple_update_json_loop_check)
    /\ WF_vars(simple_update_sensor_data_finish)
    /\ WF_vars(simple_print_json_check) /\ WF_vars(simple_print_json_unlock)
    /\ WF_vars(simple_send_json_loop_check) /\ WF_vars(simple_send_json_loop_return)
    /\ SF_vars(simple_update_sensor_data_lock)
    /\ SF_vars(simple_print_json_lock)
    /\ SF_vars(simple_send_json_loop_lock)
    /\ WF_vars(simple_join_update) /\ WF_vars(simple_join_print)
    /\ WF_vars(simple_join_ws) /\ WF_vars(simple_join_input)

SpecSimple == InitSimple /\ [][NextSimple]_vars /\ FairSimple

(***************************************************************************)
(* LogManager on its own: setLogFile, setLogLevel and log called in any    *)
(* order.  An entry is the stream, the level string and the message; the   *)
(* time stamp of an entry is left out.                                     *)
(***************************************************************************)
\* the messages handed to log()
LogMessages == {"m1", "m2"}

\* lines 83-91
getLogLevelString(level) ==
    IF level = INFO THEN "INFO"
    ELSE IF level = WARNING THEN "WARNING"
    ELSE IF level = ERR THEN "ERROR"
    ELSE IF level = DEBUG THEN "DEBUG"
    ELSE "UNKNOWN"

\* lines 62-69: ERR goes to std::cerr, the other levels to std::cout
console_stream(level) == IF level = ERR THEN "cerr" ELSE "cout"

\* lines 25-40: a name without ".log" is refused; otherwise the file is
\* opened for appending, which succeeds or fails
LogManager_setLogFile ==
    /\ \E valid \in BOOLEAN, opened \in BOOLEAN :
          logFile_' = (IF ~valid THEN logFile_
                       ELSE IF opened THEN "open" ELSE "failed")
    /\ UNCHANGED <<program, logger, file, line_no, envMap, env_log>>
    /\ UNCHANGED <<log_lines, console, last_call, last_set>>

\* lines 42-45
LogManager_setLogLevel ==
    /\ \E level \in LogLevels :
          /\ setLogLevel(level)
          /\ last_set' = level
    /\ UNCHANGED <<program, log_pending, log_result, file, line_no, envMap, env_log>>
    /\ UNCHANGED <<logFile_, log_lines, console, last_call>>

\* lines 47-70
LogManager_log ==
    /\ last_call[1] < MaxLog
    /\ \E level \in LogLevels, msg \in LogMessages :
          /\ last_call' = <<last_call[1] + 1, level, msg>>
          /\ IF log_skips(level, logLevel_)
             THEN UNCHANGED <<log_lines, console>>
             ELSE /\ log_lines' = (IF logFile_ = "open"
                                   THEN Append(log_lines, <<getLogLevelString(level), msg>>)
                                   ELSE log_lines)
                  /\ console' = Append(console, <<console_stream(level),
                                                  getLogLevelString(level), msg>>)
    /\ UNCHANGED <<program, logger, file, line_no, envMap, env_log>>
    /\ UNCHANGED <<logFile_, last_set>>

\* the logger as constructed (line 73): logLevel_ is INFO, no file is open
InitLog ==
    /\ InitGlobals
    /\ sensor_data = InitSensorData(0)
    /\ uri = NoURI
    /\ rest = "set"
    /\ obs = "logger"
    /\ file = <<>>
    /\ line_no = 0
    /\ envMap = <<>>
    /\ env_log = <<>>

NextLog == LogManager_setLogFile \/ LogManager_setLogLevel \/ LogManager_log

SpecLog == InitLog /\ [][NextLog]_vars

(***************************************************************************)
(* loadEnvFile on its own: one step per line of the file                   *)
(***************************************************************************)
\* the characters of the lines: a comment mark, the delimiter, another one
LineChars == {"#", "=", "a"}

RECURSIVE SeqsUpTo(_, _)
SeqsUpTo(S, n) ==
    IF n = 0 THEN {<<>>}
    ELSE LET shorter == SeqsUpTo(S, n - 1)
         IN  shorter \cup {Append(q, x) : q \in shorter, x \in S}

\* the lines std::getline can return
Lines == SeqsUpTo(LineChars, MaxLineLen)

\* a split at the last '=' of the line
find_last(line, ch) ==
    IF \E i \in 1..Len(line) : line[i] = ch
    THEN CHOOSE i \in 1..Len(line) :
            line[i] = ch /\ \A j \in (i + 1)..Len(line) : line[j] # ch
    ELSE 0

\* line.find('='): the index of the first occurrence, 0 for std::string::npos
find(line, ch) ==
    IF \E i \in 1..Len(line) : line[i] = ch
    THEN CHOOSE i \in 1..Len(line) :
            line[i] = ch /\ \A j \in 1..(i - 1) : line[j] # ch
    ELSE 0

\* envMap[key] = value
assign(map, key, value) ==
    [k \in DOMAIN map \cup {key} |-> IF k = key THEN value ELSE map[k]]

\* std::getline(envFile, line) returns the next line of the file
getline(line) ==
    /\ line_no < MaxLines
    /\ line \in Lines
    /\ file' = Append(file, line)
    /\ line_no' = line_no + 1

\* line.empty() || line[0] == '#'
skipped(line) == IF line = <<>> THEN TRUE ELSE line[1] = "#"

\* if (line.empty() || line[0] == '#') continue
loadEnvFile_skip ==
    \E line \in Lines :
       /\ getline(line)
       /\ skipped(line)
       /\ setLogLevel(DEBUG)
       /\ UNCHANGED <<program, envMap, env_log, log_pending, log_result, sink>>

\* if (delimiterPos == std::string::npos): "Malformed line" is logged; continue
loadEnvFile_malformed ==
    \E line \in Lines :
       /\ getline(line)
       /\ ~skipped(line)
       /\ find(line, "=") = 0
       /\ env_log' = Append(env_log, line)
       /\ setLogLevel(ERR)
       /\ UNCHANGED <<program, envMap, log_pending, log_result, sink>>

\* key = line.substr(0, delimiterPos); value = line.substr(delimiterPos + 1);
\* envMap[key] = value
loadEnvFile_assign ==
    \E line \in Lines :
       /\ getline(line)
       /\ ~skipped(line)
       /\ LET delimiterPos == find(line, "=")
          IN  /\ delimiterPos # 0
              /\ envMap' = assign(envMap, SubSeq(line, 1, delimiterPos - 1),
                                  SubSeq(line, delimiterPos + 1, Len(line)))
       /\ setLogLevel(DEBUG)
       /\ UNCHANGED <<program, env_log, log_pending, log_result, sink>>

\* loadEnvFile is entered with an empty map; the lines of the file are drawn
\* one by one as they are read
InitEnv ==
    /\ InitGlobals
    /\ sensor_data = InitSensorData(0)
    /\ uri = NoURI
    /\ rest = "set"
    /\ obs = "none"
    /\ file = <<>>
    /\ line_no = 0
    /\ envMap = <<>>
    /\ env_log = <<>>

NextEnv == loadEnvFile_skip \/ loadEnvFile_malformed \/ loadEnvFile_assign

SpecEnv == InitEnv /\ [][NextEnv]_vars

\* the same program, recording the strings the poller applies
InitApplied == InitProgram /\ obs = "applied"

SpecApplied == InitApplied /\ [][Next]_vars

\* the same program, recording the level of the shared LogManager and the
\* entries of the poller
InitLogger == InitProgram /\ obs = "logger"

SpecLogger == InitLogger /\ [][Next]_vars

(***************************************************************************)
(* Properties                                                              *)
(***************************************************************************)
\* a step of the key listener that handles a key: the only step that moves no
\* thread and does not end the process
KeyStep == pc["input"] = "check" /\ pc' = pc /\ aborted' = aborted

\* a step of the poller that completes a tick
TickStep == pc["machine"] = "post" /\ pc'["machine"] = "check"

\* the step of the display loop that renders the document
RenderStep == pc["print"] = "lock" /\ pc'["print"] = "rendered"

\* the step of the send loop that serialises the document and calls send()
HandOverStep == pc["send"] = "lock" /\ pc'["send"] = "sending"

\* C1: every message the send loop hands to the transport carries the
\* "Prediction" key exactly when the control mode is PREDICTION at that moment
\* (none in SAFE mode, one in PREDICTION mode).
C1_SentMessageFollowsMode ==
    [][HandOverStep =>
          (HasKey(message', "Prediction") <=> current_mode = PREDICTION_MODE)]_vars

\* C2: the document the display loop renders lacks "Prediction" when the mode
\* read in that tick is SAFE and has it when the mode is PREDICTION, it agrees
\* with the shared document on every other key, and the shared document is
\* left as it was (with its "Prediction" member).
C2_DisplayRendersByMode ==
    [][RenderStep =>
          /\ ("Prediction" \in DOMAIN snapshot') <=> (current_mode = PREDICTION_MODE)
          /\ (DOMAIN sensor_data) \ {"Prediction"} \subseteq DOMAIN snapshot'
          /\ \A k \in DOMAIN snapshot' : snapshot'[k] = sensor_data[k]
          /\ sensor_data' = sensor_data
          /\ "Prediction" \in DOMAIN sensor_data']_vars

\* a display tick in SAFE mode has rendered a document without the predictions
\* while the shared document still has them
C2_Witness ==
    /\ pc["print"] = "rendered"
    /\ current_mode = SAFE_MODE
    /\ "Prediction" \notin DOMAIN snapshot
    /\ "Prediction" \in DOMAIN sensor_data
    /\ snapshot = erase(sensor_data, "Prediction")

\* the positions of a loop inside one unit of work, in the order they are passed
WorkOrder == <<"post", "lock_sd", "in_sd", "lock_info", "lock", "rendered", "sending">>

WorkRank(p) == CHOOSE i \in 1..Len(WorkOrder) : WorkOrder[i] = p

InWork(p) == \E i \in 1..Len(WorkOrder) : WorkOrder[i] = p

C4_QuitEndsInReturn ==
    quit_open /\ ~Alive => aborted \in {"send_throw", "close_throw"}

\* C5: is_run never goes from false to true and changes only in a step of the
\* key listener; current_mode changes only in a step of the key listener or in
\* a poller tick; current_speed changes only in a poller tick; no step of
\* update_json_loop, send_json_loop, print_json or Ai_handle changes any of them.
C5_ControlWriters ==
    [][/\ (is_run' => is_run)
       /\ (is_run' # is_run => KeyStep)
       /\ (current_mode' # current_mode => KeyStep \/ TickStep)
       /\ (current_speed' # current_speed => TickStep)
       /\ ((\E t \in {"update", "print", "send", "ai"} : pc'[t] # pc[t]) =>
              UNCHANGED control)]_vars

\* all three have been written, while the four data loops are running or done
C5_Witness ==
    /\ ~is_run
    /\ current_mode = PREDICTION_MODE
    /\ current_speed = MEDIUM
    /\ pc["print"] = "rendered"
    /\ pc["send"] = "lock"

\* C6: a poller tick whose response carries another HardwareID than the local
\* one leaves current_mode and current_speed as they were.
C6_MismatchKeepsControl ==
    [][TickStep /\ tick' = "mismatch" => UNCHANGED <<current_mode, current_speed>>]_vars

\* a tick with a mismatching identifier has completed away from the initial
\* mode and speed
C6_Witness ==
    /\ tick = "mismatch"
    /\ pc["machine"] = "check"
    /\ current_mode = PREDICTION_MODE
    /\ current_speed = FAST

\* C7: a poller tick that gets an empty response or a mismatching identifier
\* writes an error to the log, changes no control or telemetry state, and
\* returns to the loop top for the next fetch.
C7_FetchErrorLoggedAndSkipped ==
    [][pc["machine"] = "post" /\ tick' \in {"empty", "mismatch"} =>
          /\ machine_err'
          /\ pc'["machine"] = "check"
          /\ UNCHANGED <<control, HardwareID, telemetry>>
          /\ Alive']_vars

\* the poller tick that starts the scenario
ArmingStep == TickStep /\ c8' = "armed" /\ c8 # "armed"

\* C8 as stated: from SAFE/SLOW without the toggle key, a tick that receives the
\* matching {PREDICTION, FAST} ends with PREDICTION/FAST, and the first display
\* tick that starts after it renders a document with the "Prediction" key.
C8_Original ==
    [][/\ (ArmingStep =>
              current_mode' = PREDICTION_MODE /\ current_speed' = FAST)
       /\ (RenderStep /\ c8 \in {"started", "started_over"} =>
              "Prediction" \in DOMAIN snapshot')]_vars

\* C8 amended: the same, for a display tick that reads the mode before any
\* later poller tick has received a matching response with another mode.
C8_NextDisplayShowsPrediction ==
    [][/\ (ArmingStep =>
              current_mode' = PREDICTION_MODE /\ current_speed' = FAST)
       /\ (RenderStep /\ c8 = "started" =>
              "Prediction" \in DOMAIN snapshot')
       /\ (c8 \in {"armed", "started"} /\ c8' = c8 =>
              current_mode' = PREDICTION_MODE)]_vars

\* the first display tick after the scenario's poller tick has rendered
C8_Witness ==
    /\ c8 = "shown"
    /\ pc["print"] = "rendered"
    /\ "Prediction" \in DOMAIN snapshot
    /\ current_speed = FAST

\* C9: the send loop is started only in the step in which the connection
\* opens, at most one send loop is ever started, and no message is handed to
\* send() on a connection that has not opened.
C9_SendLoopStartedByOpen ==
    [][/\ (pc["send"] = "not_started" /\ pc'["send"] # "not_started" =>
              pc["ws"] = "run" /\ conn = "connecting" /\ conn' = "open")
       /\ send_threads' <= 1
       /\ (pc'["send"] # "not_started" => send_threads' = 1)
       /\ (pc'["send"] = "sending" => conn' \in {"open", "closing", "closed"})]_vars

\* the one send loop is inside a send() call on the open connection
C9_Witness ==
    /\ pc["send"] = "sending"
    /\ send_threads = 1
    /\ conn = "open"
    /\ message # NoMsg

\* C10: a send() call that fails is followed by the error being logged, the
\* sample being dropped and the loop being back at its loop top, with the
\* process alive, for the secure and the insecure loop alike.
C10_SendFailureTolerated ==
    [][/\ pc["send"] = "sending"
       /\ send_fails(conn)
       /\ (pc'["send"] # pc["send"] \/ aborted' = "send_throw")
       => /\ send_err'
          /\ message' = NoMsg
          /\ pc'["send"] = "check"
          /\ Alive']_vars

\* the positions of main before it starts the first thread, and its early exit
StartupPositions == {"begin", "register", "load_env", "check_ws", "exit_1"}

\* no thread other than main has been started
NoThreadStarted == \A t \in Threads \ {"main"} : pc[t] = "not_started"

\* C11: when REST_MAIN_SERVER or WS_URI is absent, no loop thread is ever
\* started and the process ends only by main returning 1: it is never killed
\* on the way.
C11_MissingConfigExitsWithOne ==
    (rest = "null" \/ uri = NoURI) =>
        /\ NoThreadStarted
        /\ pc["main"] \in StartupPositions
        /\ aborted # "null_string"

\* C12: once the connection has failed (get_connection refused the URI, or
\* the connect or the handshake failed) none of the transport event loop,
\* Update, Display, Inference and Send loops has been started, and the poller
\* and the key listener leave their loops only after the quit key.
C12_ConnectionErrorStartsNoLoop ==
    /\ (conn = "failed" \/ (routine # "none" /\ ~get_connection_ok(uri, routine)) =>
           \A t \in {"ws", "update", "print", "ai", "send"} : pc[t] = "not_started")
    /\ (pc["machine"] = "done" \/ pc["input"] = "done" => ~is_run)

\* the loops among Update, Display and Send that are inside their critical
\* section when the threads are at the positions p
InCritical(p) ==
    {t \in {"update", "print", "send"} :
        \/ t = "update" /\ p[t] = "in_sd"
        \/ t = "print" /\ p[t] = "rendered"
        \/ t = "send" /\ p[t] = "sending"}

\* a document as the construction or one whole regenerate leaves it
Complete(doc) ==
    \E k \in Draws :
        \/ doc = InitSensorData(k)
        \/ /\ doc["TimeStamp"] = NowStamp
           /\ doc["Event"] = Event[event_dist(k)]
           /\ doc["Data"] = DataOf(k)

\* C13: at most one of Update, Display and Send is inside its critical
\* section, and a display or send serialisation happens only while no
\* regenerate is in progress, on a document that is as the construction or one
\* whole regenerate left it.
C13_NoTornSnapshot ==
    [][/\ Cardinality(InCritical(pc')) <= 1
       /\ (RenderStep \/ HandOverStep =>
              /\ pc["update"] # "in_sd"
              /\ upd_draw = -1
              /\ Complete(sensor_data))
       /\ (RenderStep => snapshot' \in {sensor_data, erase(sensor_data, "Prediction")})
       /\ (HandOverStep => message' = dump(sensor_data))]_vars

\* the display loop holds the lock on a regenerated document while the update
\* and the send loop wait for it
C13_Witness ==
    /\ pc["print"] = "rendered"
    /\ pc["update"] = "lock_sd"
    /\ pc["send"] = "lock"
    /\ mtx = "print"
    /\ sensor_data["TimeStamp"] = NowStamp

\* C14: no thread is started while HardwareID is the placeholder, and once
\* main is past the registration loop HardwareID is not the placeholder.
C14_RegistrationBlocksStartup ==
    /\ (~NoThreadStarted => HardwareID \notin {STR_UNKNOWN, PlaceholderID})
    /\ (pc["main"] \notin {"begin", "register", "load_env", "exit_1"} =>
           HardwareID \notin {STR_UNKNOWN, PlaceholderID})

\* the poller runs with the registered identifier
C14_Witness ==
    /\ pc["machine"] = "post"
    /\ pc["input"] = "check"
    /\ HardwareID = RegisteredID

\* the routine that the first three characters of the URI select
ByPrefix(u) ==
    IF Len(u) >= 3 /\ u[1] = "w" /\ u[2] = "s" /\ u[3] = "s"
    THEN "handle_secure" ELSE "handle_no_secure"

C16_StartedAndJoinedByMain ==
    [][/\ \A t \in Threads \ {"main"} :
             pc[t] = "not_started" /\ pc'[t] # "not_started" => pc'["main"] # pc["main"]
       /\ (pc'["main"] = "returned" =>
              \A t \in Threads \ {"main"} : pc'[t] \in {"not_started", "done"})]_vars

\* C17: every sleep of the Update, Send, Display and Inference loops lasts what
\* delay() gives for the speed at that moment: 1 s for SLOW, 200 ms for MEDIUM,
\* 100 ms for FAST.
C17_SleepFollowsSpeed ==
    [][nap' # nap =>
          /\ nap'[1] \in {"update", "send", "print", "ai"}
          /\ nap'[2] = (IF current_speed = SLOW THEN 1000000
                        ELSE IF current_speed = MEDIUM THEN 200000 ELSE 100000)]_vars

\* C18: the six channel values of the document are in [0,100), its event is
\* one of the seven names, and its predictions map each of the seven names to
\* a value in [0,1].
C18_DocumentRanges ==
    /\ DOMAIN sensor_data["Data"] = {Channels[c] : c \in 1..Len(Channels)}
    /\ \A n \in DOMAIN sensor_data["Data"] :
           sensor_data["Data"][n] >= 0 /\ sensor_data["Data"][n] < 100
    /\ \E i \in 1..Len(Event) : sensor_data["Event"] = Event[i]
    /\ DOMAIN sensor_data["Prediction"] = {Event[i] : i \in 1..Len(Event)}
    /\ \A e \in DOMAIN sensor_data["Prediction"] :
           sensor_data["Prediction"][e] >= 0 /\ sensor_data["Prediction"][e] <= 1

\* a document that a regenerate has written completely
C18_Witness ==
    /\ sensor_data["TimeStamp"] = NowStamp
    /\ sensor_data["Event"] = Event[event_dist(0)]
    /\ sensor_data["HardwareID"] = RegisteredID
    /\ upd_draw = -1
    /\ pc["update"] = "check"

\* C19: the shared document always has its six top-level fields, whatever the
\* mode; it changes only in the two steps of update_sensor_data, which assign
\* to fields and remove none.
C19_DocumentKeepsFields ==
    [][/\ DOMAIN sensor_data = {KeyOrder[i] : i \in 1..Len(KeyOrder)}
       /\ DOMAIN sensor_data' = DOMAIN sensor_data
       /\ sensor_data'["Prediction"] = sensor_data["Prediction"]
       /\ (sensor_data' # sensor_data =>
              pc["update"] \in {"lock_sd", "in_sd"} /\ pc'["update"] # pc["update"])]_vars

\* the display has rendered a document without predictions in SAFE mode and
\* the regenerated shared document has all its fields
C19_Witness ==
    /\ pc["print"] = "rendered"
    /\ "Prediction" \notin DOMAIN snapshot
    /\ snapshot["TimeStamp"] = NowStamp
    /\ DOMAIN sensor_data = {KeyOrder[i] : i \in 1..Len(KeyOrder)}

\* C20: main has returned 0 only in a state where is_run is false and the key
\* listener and the poller have left their loops.
C20_ReturnOnlyAfterQuit ==
    pc["main"] = "returned" =>
        ~is_run /\ pc["input"] = "done" /\ pc["machine"] = "done"

\* main has returned after a connection that opened and was closed
C20_Witness ==
    /\ pc["main"] = "returned"
    /\ ~is_run
    /\ conn = "closed"
    /\ send_threads = 1

\* the position of thread t in the sequence order
Pos(order, t) == CHOOSE k \in 1..Len(order) : order[k] = t

\* the joins made so far follow order, every joined thread had returned, and no
\* thread was joined while one that comes before it in order was still to be joined
JoinedAlong(order) ==
    /\ \A i, j \in 1..Len(joined) :
          i < j => Pos(order, joined[i]) < Pos(order, joined[j])
    /\ \A i \in 1..Len(joined) :
          /\ pc[joined[i]] = "done"
          /\ \A k \in 1..(Pos(order, joined[i]) - 1) :
                \/ \E h \in 1..(i - 1) : joined[h] = order[k]
                \/ pc[order[k]] = "not_started"

\* C21 as stated: main joins Update, Display, Inference, the transport event
\* loop, the poller and the key listener in this order and never joins a later
\* one of them before an earlier one has returned.
C21_Original ==
    JoinedAlong(<<"update", "print", "ai", "ws", "machine", "input">>)

\* C21: main joins Update, Display, Inference, the transport event loop, the
\* key listener and then the poller, in this order; a thread is joined only once
\* it has returned and once every thread before it in this order has been joined
\* or was never started.
C21_JoinsInFixedOrder ==
    JoinedAlong(<<"update", "print", "ai", "ws", "input", "machine">>)

\* main has joined all six threads
C21_Witness ==
    /\ pc["main"] = "returned"
    /\ joined = <<"update", "print", "ai", "ws", "input", "machine">>

\* the step of main that calls c->close(): the call returns or throws
CloseStep ==
    /\ pc["main"] = "check_close"
    /\ ~is_run
    /\ (conn' = "closing" \/ aborted' = "close_throw")

\* the threads main has joined so far
Joined == {joined[i] : i \in 1..Len(joined)}

\* the order in which main starts the threads and connects
StartOrder ==
    /\ pc["input"] # "not_started" => pc["machine"] # "not_started"
    /\ conn # "none" => pc["input"] # "not_started" /\ pc["ws"] # "not_started"
    /\ pc["update"] # "not_started" => conn # "none"
    /\ pc["print"] # "not_started" => pc["update"] # "not_started"
    /\ pc["ai"] # "not_started" => pc["print"] # "not_started"

\* C22 as stated: main starts the poller and the key listener, connects, starts
\* Update, Display and Inference, and calls close only after it has joined all
\* loops.
C22_Original ==
    /\ []StartOrder
    /\ [][CloseStep =>
             {"update", "print", "ai", "ws", "input", "machine"} \subseteq Joined]_vars

\* C22: main starts the poller, then the key listener, then connects and starts
\* the event loop, then starts Update, Display and Inference; it calls close
\* after it has joined exactly Update, Display and Inference, which have
\* returned, and before it joins the event loop, the key listener and the poller.
C22_CloseAfterThreeJoins ==
    /\ []StartOrder
    /\ [][CloseStep =>
             /\ joined = <<"update", "print", "ai">>
             /\ \A t \in {"update", "print", "ai"} : pc[t] = "done"]_vars

\* the close call has returned and the event loop is still to be joined
C22_Witness ==
    /\ conn = "closing"
    /\ pc["main"] = "join_ws"
    /\ joined = <<"update", "print", "ai">>

\* the positions at which a thread is inside a block guarded by mtx
Critical(t) ==
    IF t = "update" THEN {"in_sd"}
    ELSE IF t = "print" THEN {"rendered"}
    ELSE IF t = "send" THEN {"sending"}
    ELSE {}

\* a step of the update loop that writes the document
RegenerateStep ==
    \/ pc["update"] = "lock_sd" /\ pc'["update"] = "in_sd"
    \/ pc["update"] = "in_sd" /\ pc'["update"] = "lock_info"

\* C23: mtx is held exactly while its holder is inside one guarded block (the
\* regenerate, the render, or the dump-and-send); a loop that goes to sleep
\* (it returns to its loop top) has released it; the send call is made with
\* mtx held by the send loop, and while it has not returned no step of a
\* regenerate and no render takes place.
C23_LockSpansOneOperation ==
    /\ [](\A t \in Threads : mtx = t <=> pc[t] \in Critical(t))
    /\ [][\A t \in {"update", "print", "send", "ai"} :
             pc'[t] = "check" => mtx' # t]_vars
    /\ [][pc["send"] = "sending" =>
             /\ mtx = "send"
             /\ ~RegenerateStep
             /\ ~RenderStep]_vars

\* send() has been called and has not returned; the update loop and the
\* display loop both wait for mtx
C23_Witness ==
    /\ pc["send"] = "sending"
    /\ mtx = "send"
    /\ pc["update"] = "lock_sd"
    /\ pc["print"] = "lock"

\* C24: the step of update_sensor_data that takes mtx writes into the Mode field
\* the string of the current_mode it reads in that step, "SAFE" or
\* "PREDICTION", and holds mtx afterwards; the Mode field of the document is
\* "SAFE" or "PREDICTION" in every reachable state.
C24_ModeFieldFollowsControlMode ==
    /\ [](sensor_data["Mode"] \in {"SAFE", "PREDICTION"})
    /\ [][pc["update"] = "lock_sd" /\ pc'["update"] = "in_sd" =>
             /\ mtx' = "update"
             /\ sensor_data'["Mode"] =
                   (IF current_mode = PREDICTION_MODE THEN "PREDICTION" ELSE "SAFE")]_vars

\* a regenerate has just written "PREDICTION" over a document that said "SAFE"
C24_Witness ==
    /\ pc["update"] = "in_sd"
    /\ current_mode = PREDICTION_MODE
    /\ sensor_data["Mode"] = "PREDICTION"

C29_InferenceWritesNothing ==
    /\ [](sensor_data["Prediction"] = ZeroPrediction)
    /\ [][sensor_data' # sensor_data => RegenerateStep]_vars
    /\ [][control' # control => KeyStep \/ TickStep]_vars
    /\ [][pc["ai"] = "check" /\ pc'["ai"] = "done" =>
             UNCHANGED <<control, telemetry, HardwareID, outputs>>]_vars

\* the inference loop has run and left while the document was regenerated in
\* PREDICTION mode
C29_Witness ==
    /\ pc["ai"] = "done"
    /\ sensor_data["Mode"] = "PREDICTION"
    /\ sensor_data["Prediction"] = ZeroPrediction

\* C30: when main reaches if (!is_run) in a handle_* routine, is_run is FALSE;
\* main goes on to websocket_thread.join() only through a close call that has
\* returned, and the event loop is joined only after that call.
C30_CloseBeforeJoiningEventLoop ==
    /\ [](pc["main"] = "check_close" => ~is_run /\ conn # "none")
    /\ [][pc["main"] = "check_close" /\ pc'["main"] = "join_ws" =>
             conn = "open" /\ conn' = "closing"]_vars
    /\ []("ws" \in Joined => routine # "none" /\ conn = "closed")

\* the event loop has been joined after the close
C30_Witness ==
    /\ pc["main"] = "join_input"
    /\ "ws" \in Joined
    /\ conn = "closed"

\* a step of the registration loop that sends GET /register
RequestStep ==
    /\ pc["main"] = "load_env"
    /\ rest = "set"
    /\ (pc' # pc \/ aborted' # aborted)

\* C26: every request to /register but the first is made after the 200 ms wait
\* that ended the previous iteration, whatever the previous response was; the
\* loop is left for the start of the threads only with an identifier that is
\* not the placeholder.
C26_RequestsSeparatedByWait ==
    /\ [][RequestStep => reg_last \in {"none", "slept"}]_vars
    /\ [](pc["main"] = "check_ws" => HardwareID # STR_UNKNOWN)

\* C25: every transition of mode or speed the poller applies gets its log
\* entry, whatever the other threads do with the shared logger in between; a
\* tick that leaves mode and speed as they are logs no transition.
C25_EveryTransitionLogged ==
    /\ [](log_result # "skipped")
    /\ [][TickStep =>
             (log_pending' <=> (current_mode' # current_mode
                                   \/ current_speed' # current_speed))]_vars

\* a line that defines a variable: not empty, not a comment, with a delimiter
Defines(l) == l # <<>> /\ l[1] # "#" /\ \E i \in 1..Len(l) : l[i] = "="

\* the key and the value of such a line: what stands before and after its
\* first delimiter
PairOf(l) ==
    LET n == CHOOSE n \in 1..Len(l) : l[n] = "=" /\ \A j \in 1..(n - 1) : l[j] # "="
    IN  <<SubSeq(l, 1, n - 1), SubSeq(l, n + 1, Len(l))>>

\* the map the lines ls define: for every key, the value of its last line
MapOf(ls) ==
    LET Q == {i \in 1..Len(ls) : Defines(ls[i])}
        Last(k) == CHOOSE i \in Q :
                      /\ PairOf(ls[i])[1] = k
                      /\ \A j \in Q : PairOf(ls[j])[1] = k => j <= i
    IN  [k \in {PairOf(ls[i])[1] : i \in Q} |-> PairOf(ls[Last(k)])[2]]

\* a line that is neither skipped nor split
Malformed(l) == l # <<>> /\ l[1] # "#" /\ ~\E i \in 1..Len(l) : l[i] = "="

\* C28: after any number of lines read, envMap holds exactly the pairs of the
\* lines read that are non-empty, do not start with '#' and contain '=', split
\* at their first '=', the last line of a key giving its value; the lines
\* logged as malformed are exactly those without '=' that are neither empty nor
\* comments, in the order of the file.
C28_LoadEnvFileResult ==
    /\ line_no = Len(file)
    /\ envMap = MapOf(file)
    /\ env_log = SelectSeq(file, Malformed)

\* a malformed line was logged and the line after it was loaded
C28_Witness ==
    /\ line_no = 2
    /\ Malformed(file[1])
    /\ env_log = <<file[1]>>
    /\ Defines(file[2])
    /\ envMap = [k \in {PairOf(file[2])[1]} |-> PairOf(file[2])[2]]

\* main has made the close call of its handle_* routine and the call returned
CloseCalled ==
    /\ "ai" \in Joined
    /\ pc["main"] \in {"join_ws", "join_input", "join_machine", "returned"}

\* C31: the send loop does not call send() on the connection once main has
\* called close on it.
C31_NoSendAfterClose ==
    [][HandOverStep => ~CloseCalled]_vars

\* C32: once main has returned the send loop has exited (or was never
\* started), so it takes no step after the return of main.
C32_SendLoopExitedAtReturn ==
    /\ [](pc["main"] = "returned" => pc["send"] \in {"not_started", "done"})
    /\ [][pc["main"] = "returned" => pc'["send"] = pc["send"]]_vars

\* C33: every message the send loop serialises carries the identifier acquired
\* at registration and no longer the time stamp the document was constructed
\* with.
C33_MessageCarriesRegisteredID ==
    [][HandOverStep =>
          /\ \E i \in 1..Len(message') : message'[i] = <<"HardwareID", HardwareID>>
          /\ \A i \in 1..Len(message') : message'[i] # <<"TimeStamp", PlaceholderStamp>>]_vars

\* C34: a rendered snapshot has the Prediction key exactly when its Mode field
\* says "PREDICTION".
C34_SnapshotSelfConsistent ==
    snapshot # NoDoc =>
       ("Prediction" \in DOMAIN snapshot <=> snapshot["Mode"] = "PREDICTION")

\* the mode a Mode string names, whatever the case of its letters
ModeNamed(str) ==
    IF transform_toupper(str) = STR_PREDICTION THEN PREDICTION_MODE
    ELSE IF transform_toupper(str) = STR_SAFE THEN SAFE_MODE
    ELSE "none"

\* C35: the poller tick that applies a matching response naming a mode leaves
\* current_mode equal to that mode, whatever current_mode was before the tick
\* (in particular after a toggle key).
C35_MatchingPollSetsMode ==
    [][TickStep /\ applied' # <<>> /\ ModeNamed(applied'[1]) # "none" =>
          current_mode' = ModeNamed(applied'[1])]_vars

\* a matching response naming SAFE has just been applied
C35_Witness ==
    /\ pc["machine"] = "check"
    /\ applied # <<>>
    /\ ModeNamed(applied[1]) = SAFE_MODE
    /\ current_mode = SAFE_MODE
    /\ pc["input"] = "check"

\* C36: the poller tick that applies a matching response sets current_mode to
\* PREDICTION_MODE exactly when the upper-cased Mode string is "PREDICTION"
\* and to SAFE_MODE otherwise, and current_speed to SLOW for "SLOW", MEDIUM for
\* "MEDIUM" and FAST for every other string; mode and speed are always members
\* of their enumerations.
C36_StringsToEnumerations ==
    /\ [](current_mode \in Modes /\ current_speed \in Speeds)
    /\ [][TickStep /\ applied' # <<>> =>
             /\ current_mode' =
                   (IF transform_toupper(applied'[1]) = STR_PREDICTION
                    THEN PREDICTION_MODE ELSE SAFE_MODE)
             /\ current_speed' =
                   (IF transform_toupper(applied'[2]) = STR_SLOW THEN SLOW
                    ELSE IF transform_toupper(applied'[2]) = STR_MEDIUM THEN MEDIUM
                    ELSE FAST)]_vars

\* a response whose strings name no mode and no speed has just been applied
C36_Witness ==
    /\ pc["machine"] = "check"
    /\ applied = <<OtherString, OtherString>>
    /\ current_mode = SAFE_MODE
    /\ current_speed = FAST

\* C37: no response of the collector ends the poller: whatever it receives,
\* the poller completes the tick and no exception leaves handle_machine.
C37_NoResponseEndsPoller ==
    /\ [](aborted # "parse_throw")
    /\ [][pc["machine"] = "post" /\ pc'["machine"] # "post" =>
             pc'["machine"] = "check"]_vars

\* the positions at which a thread is about to lock mtx
Waiting(t) ==
    IF t = "update" THEN pc[t] \in {"lock_sd", "lock_info"}
    ELSE IF t \in {"print", "send"} THEN pc[t] = "lock"
    ELSE FALSE

C39_QuitEndsSimpleVariant ==
    (~is_run /\ conn = "open") ~>
        /\ pc["update"] = "done"
        /\ pc["print"] = "done"
        /\ pc["send"] = "done"
        /\ pc["main"] = "returned"

\* a step that is a log() call
LogStep == last_call'[1] = last_call[1] + 1

\* C40: a log(level, message) call appends one entry with that level and message
\* to the console, and to the log file when it is open, exactly when level is
\* not below the level of the last setLogLevel() call (INFO before any call),
\* with INFO < WARNING < ERR < DEBUG; otherwise it writes nothing; in both cases
\* the threshold and the file handle are left as they were.
C40_LogEmitsAtOrAboveThreshold ==
    /\ INFO < WARNING /\ WARNING < ERR /\ ERR < DEBUG
    /\ [](logLevel_ = last_set)
    /\ [][LogStep =>
             LET level == last_call'[2]
                 entry == <<getLogLevelString(level), last_call'[3]>>
             IN  /\ UNCHANGED <<logLevel_, logFile_, log_pending, log_result>>
                 /\ IF level >= last_set
                    THEN /\ Len(console') = Len(console) + 1
                         /\ SubSeq(console', 1, Len(console)) = console
                         /\ <<console'[Len(console')][2],
                              console'[Len(console')][3]>> = entry
                         /\ log_lines' = (IF logFile_ = "open"
                                          THEN Append(log_lines, entry)
                                          ELSE log_lines)
                    ELSE UNCHANGED <<console, log_lines>>]_vars

\* with the threshold at ERR and the file open, a WARNING call was suppressed
\* after an ERR call had been written to the console and to the file
C40_Witness ==
    /\ last_set = ERR
    /\ logFile_ = "open"
    /\ last_call = <<2, WARNING, "m2">>
    /\ console = <<<<"cerr", "ERROR", "m1">>>>
    /\ log_lines = <<<<"ERROR", "m1">>>>

====
